---- MODULE Spec2Model ----
(***************************************************************************)
(* Model of the CDK application react-cloudfront-s3-cdk:                   *)
(*   infrastructure/app.py                       main                      *)
(*   infrastructure/stacks/material_dashboard_stack.py                     *)
(*                                   MaterialDashboardStack.__init__       *)
(* and of the inline CloudFront Function `handler` it deploys.             *)
(*                                                                         *)
(* The configuration is a Python dict: a function whose DOMAIN is the set  *)
(* of keys present.  Domain names are sequences of labels                  *)
(* ("dev.example.com" is <<"dev","example","com">>, "" is <<>>), a zone id *)
(* is a sequence of at most one token ("" is <<>>); request                *)
(* paths are sequences of tokens "/" , "." and dot-free, slash-free runs.  *)
(* Constructs are recorded in the order the constructor creates them.      *)
(***************************************************************************)
EXTENDS Naturals, Sequences, FiniteSets, TLC

VARIABLES
    entry,                  \* "main" (app.py) or "direct" (the class used as a library)
    config,                 \* the configuration dict
    pc,                     \* next statement group of the run
    error,                  \* "none" or the exception that ended the run
    signals,                \* warnings / signals emitted so far
    constructs,             \* constructs of the stack, in creation order
    website_bucket,         \* local variables of __init__: a construct id or "None"
    origin_access_identity,
    spa_function,
    zone,
    certificate,
    price_class_value,
    distribution,
    web_acl,
    tags,                   \* Tags.of(self): key -> value
    outputs,                \* CfnOutput: logical id -> value
    uri,                    \* event.request.uri handed to the edge function
    request_uri,            \* request.uri as the edge function returns it
    handled                 \* the edge function has run on uri

buildVars == <<entry, config, pc, error, signals, constructs, website_bucket,
               origin_access_identity, spa_function, zone, certificate,
               price_class_value, distribution, web_acl, tags, outputs>>
routeVars == <<uri, request_uri, handled>>
vars == <<buildVars, routeVars>>

-----------------------------------------------------------------------------
(* Bounds of the model *)

MaxUriLen == 6

(* Python values *)

None == "None"
EmptyDict == [k \in {} |-> k]

\* A key that may be absent, or present with one of vals.
Opt(k, vals) == {EmptyDict} \cup {k :> v : v \in vals}

\* dict.get(key): truthiness of the value, None when the key is absent.
Truthy(d, k) == k \in DOMAIN d /\ d[k] # <<>>

Environments == {"dev", "prod", "staging"}
Regions == {"us-east-1"}
Accounts == {"111111111111"}
Domains == {<<>>, <<"dev", "example", "com">>, <<"example", "com">>}
ZoneIds == {<<>>, <<"Z123">>}
ZoneNames == {<<>>, <<"example", "com">>, <<"other", "com">>}
PriceClassInputs == {"PriceClass_100", "PriceClass_200", "PriceClass_All", "bogus", ""}

Configs ==
    { e @@ r @@ a @@ d @@ zi @@ zn @@ cf :
        e  \in Opt("environment", Environments),
        r  \in Opt("region", Regions),
        a  \in Opt("account", Accounts),
        d  \in Opt("domain", Domains),
        zi \in Opt("hostedZoneId", ZoneIds),
        zn \in Opt("hostedZoneName", ZoneNames),
        cf \in Opt("cloudfront", Opt("priceClass", PriceClassInputs)) }

-----------------------------------------------------------------------------
(* The construct tree *)

Ids == {constructs[i].id : i \in 1..Len(constructs)}
OfKind(k) == {i \in 1..Len(constructs) : constructs[i].kind = k}
Construct(id) == constructs[CHOOSE i \in 1..Len(constructs) : constructs[i].id = id]
NotNone(S) == S \ {None}

Add(id, kind, refs, props) ==
    constructs' = Append(constructs,
                         [id |-> id, kind |-> kind, refs |-> refs, props |-> props])

\* Mutant of Steps: the WAF-attached distribution is built before the WebACL.
StepsWafSwapped ==
    <<"main", "init", "bucket", "oai", "spa_function", "zone_cert",
      "price_class", "distribution", "distribution_waf", "web_acl",
      "alias_records", "deploy", "tags", "outputs", "done">>

\* The statement groups of main / __init__, in program order.
Steps == <<"main", "init", "bucket", "oai", "spa_function", "zone_cert",
           "price_class", "distribution", "web_acl", "distribution_waf",
           "alias_records", "deploy", "tags", "outputs", "done">>

After(p) == Steps[1 + CHOOSE i \in 1..Len(Steps) : Steps[i] = p]

Raise(e) == /\ pc' = "failed"
            /\ error' = e

-----------------------------------------------------------------------------
InitBuild ==
    /\ entry \in {"main", "direct"}
    /\ config \in Configs
    /\ pc = IF entry = "main" THEN "main" ELSE "init"
    /\ error = "none"
    /\ signals = {}
    /\ constructs = <<>>
    /\ website_bucket = None
    /\ origin_access_identity = None
    /\ spa_function = None
    /\ zone = None
    /\ certificate = None
    /\ price_class_value = None
    /\ distribution = None
    /\ web_acl = None
    /\ tags = EmptyDict
    /\ outputs = EmptyDict

InitRouteIdle ==
    /\ uri = <<"/">>
    /\ request_uri = <<"/">>
    /\ handled = FALSE

Init == InitBuild /\ InitRouteIdle

\* app.py main: the arguments of the MaterialDashboardStack(...) call are
\* evaluated before the constructor runs.
Main ==
    /\ pc = "main"
    /\ IF {"environment", "account", "region"} \subseteq DOMAIN config
          THEN /\ pc' = After("main")
               /\ error' = error
          ELSE Raise("KeyError")
    /\ UNCHANGED <<entry, config, signals, constructs, website_bucket,
                   origin_access_identity, spa_function, zone, certificate,
                   price_class_value, distribution, web_acl, tags, outputs>>
    /\ UNCHANGED routeVars

\* Mutant of StackInit: region = config['region'] (a value __init__ never
\* uses afterwards) is not read.
StackInitNoRegion ==
    /\ pc = "init"
    /\ IF {"environment", "account"} \subseteq DOMAIN config
          THEN /\ pc' = After("init")
               /\ error' = error
          ELSE Raise("KeyError")
    /\ UNCHANGED <<entry, config, signals, constructs, website_bucket,
                   origin_access_identity, spa_function, zone, certificate,
                   price_class_value, distribution, web_acl, tags, outputs>>
    /\ UNCHANGED routeVars

\* __init__: environment = config['environment'] ... account = config['account']
StackInit ==
    /\ pc = "init"
    /\ IF {"environment", "region", "account"} \subseteq DOMAIN config
          THEN /\ pc' = After("init")
               /\ error' = error
          ELSE Raise("KeyError")
    /\ UNCHANGED <<entry, config, signals, constructs, website_bucket,
                   origin_access_identity, spa_function, zone, certificate,
                   price_class_value, distribution, web_acl, tags, outputs>>
    /\ UNCHANGED routeVars

\* Retention policy of the bucket, by environment.
RemovalPolicy(environment) == IF environment = "dev" THEN "DESTROY" ELSE "RETAIN"
AutoDeleteObjects(environment) == environment = "dev"
NoncurrentVersionExpirationDays(environment) == IF environment = "dev" THEN 30 ELSE 90

CreateBucket ==
    /\ pc = "bucket"
    /\ Add("WebsiteBucket", "bucket", {},
           [bucket_name |-> <<"material-dashboard", config["environment"], config["account"]>>,
            versioned |-> TRUE,
            public_read_access |-> FALSE,
            block_public_access |-> "BLOCK_ALL",
            removal_policy |-> RemovalPolicy(config["environment"]),
            auto_delete_objects |-> AutoDeleteObjects(config["environment"]),
            encryption |-> "S3_MANAGED",
            enforce_ssl |-> TRUE,
            cors_allowed_methods |-> {"GET", "HEAD"},
            cors_allowed_origins |-> {"*"},
            noncurrent_version_expiration |->
                NoncurrentVersionExpirationDays(config["environment"])])
    /\ website_bucket' = "WebsiteBucket"
    /\ pc' = After("bucket")
    /\ UNCHANGED <<entry, config, error, signals, origin_access_identity,
                   spa_function, zone, certificate, price_class_value,
                   distribution, web_acl, tags, outputs>>
    /\ UNCHANGED routeVars

\* The identity and website_bucket.grant_read(origin_access_identity): the
\* grant is the identity's reference to the bucket.
CreateOriginAccessIdentity ==
    /\ pc = "oai"
    /\ Add("OriginAccessIdentity", "identity", {website_bucket},
           [comment |-> <<"OAI for", config["environment"], "environment">>,
            grant |-> "read"])
    /\ origin_access_identity' = "OriginAccessIdentity"
    /\ pc' = After("oai")
    /\ UNCHANGED <<entry, config, error, signals, website_bucket,
                   spa_function, zone, certificate, price_class_value,
                   distribution, web_acl, tags, outputs>>
    /\ UNCHANGED routeVars

CreateSpaFunction ==
    /\ pc = "spa_function"
    /\ Add("SpaFunction", "edge-function", {}, [code |-> "handler"])
    /\ spa_function' = "SpaFunction"
    /\ pc' = After("spa_function")
    /\ UNCHANGED <<entry, config, error, signals, website_bucket,
                   origin_access_identity, zone, certificate, price_class_value,
                   distribution, web_acl, tags, outputs>>
    /\ UNCHANGED routeVars

\* Mutant of CustomDomainEnabled: the zone fields are tested with
\* `is not None` instead of for truth.
CustomDomainEnabledNotNone(cfg) ==
    /\ Truthy(cfg, "domain")
    /\ "hostedZoneId" \in DOMAIN cfg
    /\ "hostedZoneName" \in DOMAIN cfg

\* if domain and hosted_zone_id and hosted_zone_name
CustomDomainEnabled(cfg) ==
    Truthy(cfg, "domain") /\ Truthy(cfg, "hostedZoneId") /\ Truthy(cfg, "hostedZoneName")

CreateZoneAndCertificate ==
    /\ pc = "zone_cert"
    /\ IF CustomDomainEnabled(config)
          THEN /\ constructs' = constructs \o
                    << [id |-> "HostedZone", kind |-> "hosted-zone", refs |-> {},
                        props |-> [hosted_zone_id |-> config["hostedZoneId"],
                                   zone_name |-> config["hostedZoneName"]]],
                       [id |-> "SiteCertificate", kind |-> "certificate",
                        refs |-> {"HostedZone"},
                        props |-> [domain_name |-> config["domain"],
                                   hosted_zone |-> "HostedZone",
                                   region |-> "us-east-1"]] >>
               /\ zone' = "HostedZone"
               /\ certificate' = "SiteCertificate"
          ELSE UNCHANGED <<constructs, zone, certificate>>
    /\ pc' = After("zone_cert")
    /\ UNCHANGED <<entry, config, error, signals, website_bucket,
                   origin_access_identity, spa_function, price_class_value,
                   distribution, web_acl, tags, outputs>>
    /\ UNCHANGED routeVars

\* Mutant of PriceClassValue: the fallback is PRICE_CLASS_ALL.
PriceClassValueDefaultAll(price_class_input) ==
    CASE price_class_input = "PriceClass_100" -> "PRICE_CLASS_100"
      [] price_class_input = "PriceClass_200" -> "PRICE_CLASS_200"
      [] price_class_input = "PriceClass_All" -> "PRICE_CLASS_ALL"
      [] OTHER -> "PRICE_CLASS_ALL"

\* price_class_map.get(price_class_input, PRICE_CLASS_100)
PriceClassValue(price_class_input) ==
    CASE price_class_input = "PriceClass_100" -> "PRICE_CLASS_100"
      [] price_class_input = "PriceClass_200" -> "PRICE_CLASS_200"
      [] price_class_input = "PriceClass_All" -> "PRICE_CLASS_ALL"
      [] OTHER -> "PRICE_CLASS_100"

ResolvePriceClass ==
    /\ pc = "price_class"
    /\ IF "cloudfront" \in DOMAIN config /\ "priceClass" \in DOMAIN config["cloudfront"]
          THEN /\ price_class_value' = PriceClassValue(config["cloudfront"]["priceClass"])
               /\ pc' = After("price_class")
               /\ error' = error
          ELSE /\ Raise("KeyError")
               /\ price_class_value' = price_class_value
    /\ UNCHANGED <<entry, config, signals, constructs, website_bucket,
                   origin_access_identity, spa_function, zone, certificate,
                   distribution, web_acl, tags, outputs>>
    /\ UNCHANGED routeVars

\* The arguments both cloudfront.Distribution(...) calls share, and web_acl_id.
DistributionProps(acl) ==
    [origin_bucket |-> website_bucket,
     origin_access_identity |-> origin_access_identity,
     viewer_protocol_policy |-> "REDIRECT_TO_HTTPS",
     function_associations |-> {[function |-> spa_function,
                                 event_type |-> "VIEWER_REQUEST"]},
     default_root_object |-> <<"index", ".", "html">>,
     price_class |-> price_class_value,
     certificate |-> certificate,
     domain_names |-> IF certificate # None THEN <<config["domain"]>> ELSE <<>>,
     error_responses |-> {[http_status |-> 403, response_http_status |-> 200,
                           response_page_path |-> <<"/", "index", ".", "html">>],
                          [http_status |-> 404, response_http_status |-> 200,
                           response_page_path |-> <<"/", "index", ".", "html">>]},
     enable_logging |-> FALSE,
     web_acl_id |-> acl]

CreateDistribution ==
    /\ pc = "distribution"
    /\ Add("Distribution", "distribution",
           NotNone({website_bucket, origin_access_identity, spa_function, certificate}),
           DistributionProps(None))
    /\ distribution' = "Distribution"
    /\ pc' = After("distribution")
    /\ UNCHANGED <<entry, config, error, signals, website_bucket,
                   origin_access_identity, spa_function, zone, certificate,
                   price_class_value, web_acl, tags, outputs>>
    /\ UNCHANGED routeVars

\* Mutant of WafEnabled: if environment != 'dev'
WafEnabledNotDev(environment) == environment # "dev"

\* if environment == 'prod'
WafEnabled(environment) == environment = "prod"

WebAclRules ==
    << [name |-> "AWSManagedRulesCommonRuleSet",
        priority |-> 1,
        statement |-> [type |-> "managed_rule_group",
                       name |-> "AWSManagedRulesCommonRuleSet",
                       vendor_name |-> "AWS"],
        override_action |-> "none",
        action |-> None],
       [name |-> "RateLimit",
        priority |-> 2,
        statement |-> [type |-> "rate_based",
                       limit |-> 2000,
                       aggregate_key_type |-> "IP"],
        override_action |-> None,
        action |-> "block"] >>

CreateWebACL ==
    /\ pc = "web_acl"
    /\ IF WafEnabled(config["environment"])
          THEN /\ Add("WebACL", "firewall", {},
                      [default_action |-> "allow",
                       scope |-> "CLOUDFRONT",
                       rules |-> WebAclRules])
               /\ web_acl' = "WebACL"
          ELSE UNCHANGED <<constructs, web_acl>>
    /\ pc' = After("web_acl")
    /\ UNCHANGED <<entry, config, error, signals, website_bucket,
                   origin_access_identity, spa_function, zone, certificate,
                   price_class_value, distribution, tags, outputs>>
    /\ UNCHANGED routeVars

\* Mutant of CreateDistributionWithWAF: the second distribution is not bound
\* to the local variable `distribution`.
CreateDistributionWithWAFUnbound ==
    /\ pc = "distribution_waf"
    /\ IF WafEnabled(config["environment"])
          THEN Add("DistributionWithWAF", "distribution",
                   NotNone({website_bucket, origin_access_identity,
                            spa_function, certificate}) \cup {web_acl},
                   DistributionProps(web_acl))
          ELSE UNCHANGED constructs
    /\ pc' = After("distribution_waf")
    /\ UNCHANGED <<entry, config, error, signals, website_bucket,
                   origin_access_identity, spa_function, zone, certificate,
                   price_class_value, distribution, web_acl, tags, outputs>>
    /\ UNCHANGED routeVars

\* Second half of the prod branch: distribution = cloudfront.Distribution(
\* self, 'DistributionWithWAF', ..., web_acl_id=web_acl.attr_arn)
CreateDistributionWithWAF ==
    /\ pc = "distribution_waf"
    /\ IF WafEnabled(config["environment"])
          THEN /\ Add("DistributionWithWAF", "distribution",
                      NotNone({website_bucket, origin_access_identity,
                               spa_function, certificate}) \cup {web_acl},
                      DistributionProps(web_acl))
               /\ distribution' = "DistributionWithWAF"
          ELSE UNCHANGED <<constructs, distribution>>
    /\ pc' = After("distribution_waf")
    /\ UNCHANGED <<entry, config, error, signals, website_bucket,
                   origin_access_identity, spa_function, zone, certificate,
                   price_class_value, web_acl, tags, outputs>>
    /\ UNCHANGED routeVars

\* record_name = domain, less a trailing '.' + hosted_zone_name
DomainRecordName(domain, hosted_zone_name) ==
    LET n == Len(domain)
        m == Len(hosted_zone_name)
    IN  IF n > m /\ SubSeq(domain, n - m + 1, n) = hosted_zone_name
           THEN SubSeq(domain, 1, n - m)
           ELSE domain

\* if zone and domain
AliasRecordsEnabled == zone # None /\ Truthy(config, "domain")

CreateAliasRecords ==
    /\ pc = "alias_records"
    /\ IF AliasRecordsEnabled
          THEN LET record_name ==
                       DomainRecordName(config["domain"], config["hostedZoneName"])
                   Record(id, kind) ==
                       [id |-> id, kind |-> kind, refs |-> {zone, distribution},
                        props |-> [zone |-> zone,
                                   record_name |-> record_name,
                                   target |-> distribution]]
               IN  constructs' = constructs \o
                       << Record("AliasRecordA", "dns-record-A"),
                          Record("AliasRecordAAAA", "dns-record-AAAA") >>
          ELSE UNCHANGED constructs
    /\ pc' = After("alias_records")
    /\ UNCHANGED <<entry, config, error, signals, website_bucket,
                   origin_access_identity, spa_function, zone, certificate,
                   price_class_value, distribution, web_acl, tags, outputs>>
    /\ UNCHANGED routeVars

DeployWebsite ==
    /\ pc = "deploy"
    /\ Add("DeployWebsite", "deployment", {website_bucket, distribution},
           [sources |-> "build",
            destination_bucket |-> website_bucket,
            distribution |-> distribution,
            distribution_paths |-> {"/*"},
            prune |-> FALSE])
    /\ pc' = After("deploy")
    /\ UNCHANGED <<entry, config, error, signals, website_bucket,
                   origin_access_identity, spa_function, zone, certificate,
                   price_class_value, distribution, web_acl, tags, outputs>>
    /\ UNCHANGED routeVars

AddTags ==
    /\ pc = "tags"
    /\ tags' = ("Environment" :> config["environment"]) @@
               ("Project" :> "material-dashboard-react") @@
               ("ManagedBy" :> "cdk")
    /\ pc' = After("tags")
    /\ UNCHANGED <<entry, config, error, signals, constructs, website_bucket,
                   origin_access_identity, spa_function, zone, certificate,
                   price_class_value, distribution, web_acl, outputs>>
    /\ UNCHANGED routeVars

\* An attribute of a construct, resolved at deploy time.
Attr(name, of) == [attr |-> name, of |-> of]

\* f"https://{distribution.distribution_domain_name}"
WebsiteUrl(d) == <<"https://", Attr("distribution_domain_name", d)>>

\* Mutant of WebAclOutputEnabled: the environment name is misspelt.
WebAclOutputEnabledTypo == config["environment"] = "production" /\ web_acl # None

\* if environment == 'prod' and 'web_acl' in locals()
WebAclOutputEnabled == config["environment"] = "prod" /\ web_acl # None

CreateOutputs ==
    /\ pc = "outputs"
    /\ outputs' = ("WebsiteBucketName" :> Attr("bucket_name", website_bucket)) @@
                  ("CloudFrontDistributionId" :> Attr("distribution_id", distribution)) @@
                  ("CloudFrontDomainName" :>
                       Attr("distribution_domain_name", distribution)) @@
                  ("WebsiteUrl" :> WebsiteUrl(distribution)) @@
                  (IF WebAclOutputEnabled
                      THEN "WebACLId" :> Attr("attr_id", web_acl)
                      ELSE EmptyDict)
    /\ pc' = After("outputs")
    /\ UNCHANGED <<entry, config, error, signals, constructs, website_bucket,
                   origin_access_identity, spa_function, zone, certificate,
                   price_class_value, distribution, web_acl, tags>>
    /\ UNCHANGED routeVars

Next ==
    \/ Main
    \/ StackInit
    \/ CreateBucket
    \/ CreateOriginAccessIdentity
    \/ CreateSpaFunction
    \/ CreateZoneAndCertificate
    \/ ResolvePriceClass
    \/ CreateDistribution
    \/ CreateWebACL
    \/ CreateDistributionWithWAF
    \/ CreateAliasRecords
    \/ DeployWebsite
    \/ AddTags
    \/ CreateOutputs

Spec == Init /\ [][Next]_vars

-----------------------------------------------------------------------------
(* Properties of the stack build (checked under Spec) *)

Done == pc = "done"
Environment == config["environment"]

MandatoryKeys == {"environment", "region", "account"}
MissingMandatory == ~(MandatoryKeys \subseteq DOMAIN config)

DomainKeys == {"domain", "hostedZoneId", "hostedZoneName"}
SetDomainKeys == {k \in DomainKeys : Truthy(config, k)}
ExactlyOneDomainField ==
    /\ Cardinality(SetDomainKeys) = 1
    /\ DomainKeys \cap DOMAIN config = SetDomainKeys
AllDomainFieldsSet == SetDomainKeys = DomainKeys

Distributions == {constructs[i] : i \in OfKind("distribution")}
Firewalls == {constructs[i] : i \in OfKind("firewall")}

C2_Original == ExactlyOneDomainField => ~Done

\* C3, as stated: a completed build contains exactly one distribution
\* descriptor, none of them built before the firewall it was to carry.
C3_Original == Done => Cardinality(OfKind("distribution")) = 1

\* C4: a completed prod build has exactly one firewall descriptor, with the
\* two rules of priorities 1 (managed common rule set, override none) and 2
\* (rate limit 2000 per client IP, block); any other environment has none.
C4_FirewallByEnvironment ==
    /\ ("environment" \in DOMAIN config /\ Environment # "prod") => OfKind("firewall") = {}
    /\ (Done /\ Environment = "prod") =>
          /\ Cardinality(OfKind("firewall")) = 1
          /\ \A f \in Firewalls :
                LET r == f.props.rules
                IN  /\ Len(r) = 2
                    /\ r[1].priority = 1
                    /\ r[1].statement.type = "managed_rule_group"
                    /\ r[1].statement.name = "AWSManagedRulesCommonRuleSet"
                    /\ r[1].override_action = "none"
                    /\ r[2].priority = 2
                    /\ r[2].statement.type = "rate_based"
                    /\ r[2].statement.limit = 2000
                    /\ r[2].statement.aggregate_key_type = "IP"
                    /\ r[2].action = "block"

C4_Witness == Done /\ Environment = "prod" /\ OfKind("firewall") # {}

\* C6: in a completed build the certificate, the hosted-zone binding, the
\* domain name and certificate binding of every distribution, and the A and
\* AAAA alias records are all present when domain, hostedZoneId and
\* hostedZoneName are all set (non-empty), and all absent otherwise.
C6_CustomDomainAtomic ==
    Done =>
        LET on == AllDomainFieldsSet
        IN  /\ (OfKind("certificate") # {}) <=> on
            /\ (OfKind("hosted-zone") # {}) <=> on
            /\ (OfKind("dns-record-A") # {}) <=> on
            /\ (OfKind("dns-record-AAAA") # {}) <=> on
            /\ \A d \in Distributions :
                  /\ (d.props.certificate # None) <=> on
                  /\ (d.props.domain_names # <<>>) <=> on
                  /\ on => /\ d.props.domain_names = <<config["domain"]>>
                           /\ d.props.certificate \in
                                {constructs[i].id : i \in OfKind("certificate")}

C6_Witness == Done /\ AllDomainFieldsSet /\ OfKind("dns-record-AAAA") # {}

FourOutputs == {"WebsiteBucketName", "CloudFrontDistributionId",
                "CloudFrontDomainName", "WebsiteUrl"}

\* C7: the outputs of a completed build are the bucket id, the distribution
\* id, the distribution domain name and the website URL ("https://" followed
\* by that domain name), plus the firewall id exactly when a firewall was
\* built: 4 keys in dev, 5 in prod.
C7_OutputShape ==
    Done =>
        /\ FourOutputs \subseteq DOMAIN outputs
        /\ DOMAIN outputs \subseteq FourOutputs \cup {"WebACLId"}
        /\ outputs["WebsiteUrl"] = <<"https://", outputs["CloudFrontDomainName"]>>
        /\ outputs["CloudFrontDomainName"].attr = "distribution_domain_name"
        /\ ("WebACLId" \in DOMAIN outputs) <=> (OfKind("firewall") # {})
        /\ Environment = "dev" => DOMAIN outputs = FourOutputs
        /\ Environment = "prod" => DOMAIN outputs = FourOutputs \cup {"WebACLId"}

C7_Witness == Done /\ Environment = "prod" /\ "WebACLId" \in DOMAIN outputs

\* C8: every construct references only constructs created before it; the
\* firewall a distribution carries was created before that distribution.
C8_DependencyOrder ==
    \A i \in 1..Len(constructs) :
        /\ constructs[i].refs \subseteq {constructs[j].id : j \in 1..(i - 1)}
        /\ (constructs[i].kind = "distribution" /\ constructs[i].props.web_acl_id # None) =>
              \E j \in 1..(i - 1) : /\ constructs[j].kind = "firewall"
                                    /\ constructs[j].id = constructs[i].props.web_acl_id

C8_Witness ==
    /\ Done
    /\ \E i \in OfKind("distribution") : constructs[i].props.web_acl_id # None
    /\ OfKind("dns-record-A") # {}

PriceClassPresent ==
    "cloudfront" \in DOMAIN config /\ "priceClass" \in DOMAIN config["cloudfront"]
PriceClassInput == config["cloudfront"]["priceClass"]
Recognized == {"PriceClass_100", "PriceClass_200", "PriceClass_All"}
PriceClassResolved == price_class_value # None

ConsumerTargets ==
    {constructs[i].props.target :
        i \in OfKind("dns-record-A") \cup OfKind("dns-record-AAAA")}
    \cup {constructs[i].props.distribution : i \in OfKind("deployment")}
    \cup {outputs["CloudFrontDistributionId"].of,
          outputs["CloudFrontDomainName"].of,
          outputs["WebsiteUrl"][2].of}

\* C10: in a completed build the alias records, the deployment and the
\* distribution outputs all refer to one distribution, and when a firewall
\* exists that distribution is the one carrying it.
C10_OneConsumedDistribution ==
    Done =>
        /\ Cardinality(ConsumerTargets) = 1
        /\ \A t \in ConsumerTargets :
              /\ \E d \in Distributions : d.id = t
              /\ \A f \in Firewalls : Construct(t).props.web_acl_id = f.id

C10_Witness == Done /\ Firewalls # {} /\ OfKind("dns-record-A") # {}

-----------------------------------------------------------------------------
(* The CloudFront Function deployed as SpaFunction *)

Tokens == {"/", ".", "a"}

Paths == UNION { {<<"/">> \o t : t \in [1..n -> Tokens]} : n \in 0..(MaxUriLen - 1) }

endsWith(u, t) == Len(u) > 0 /\ u[Len(u)] = t
includes(u, t) == \E i \in 1..Len(u) : u[i] = t

handler(u) ==
    IF endsWith(u, "/")
       THEN u \o <<"index", ".", "html">>
       ELSE IF ~includes(u, ".")
               THEN u \o <<"/", "index", ".", "html">>
               ELSE u

\* The stack whose SpaFunction serves the requests: the repository's dev profile.
DevProfile ==
    ("environment" :> "dev") @@ ("region" :> "us-east-1") @@
    ("account" :> "111111111111") @@ ("cloudfront" :> ("priceClass" :> "PriceClass_100"))

InitRouting ==
    /\ InitBuild
    /\ entry = "main"
    /\ config = DevProfile
    /\ uri \in Paths
    /\ request_uri = uri
    /\ handled = FALSE

ViewerRequest ==
    /\ ~handled
    /\ request_uri' = handler(uri)
    /\ handled' = TRUE
    /\ UNCHANGED uri
    /\ UNCHANGED buildVars

NextRouting == ViewerRequest

SpecRouting == InitRouting /\ [][NextRouting]_vars

-----------------------------------------------------------------------------
(* Properties of the edge function (checked under SpecRouting) *)

\* The tokens after the last "/".
FinalSegment(u) ==
    LET slashes == {i \in 1..Len(u) : u[i] = "/"}
        last == IF slashes = {} THEN 0 ELSE CHOOSE i \in slashes : \A j \in slashes : j <= i
    IN  SubSeq(u, last + 1, Len(u))

\* C5, as stated: a path ending in "/" gets index.html appended; otherwise a
\* path whose final segment holds no "." gets /index.html appended, whatever
\* the earlier segments hold; every other path is returned unchanged.
C5_Original ==
    handled =>
        request_uri =
            IF endsWith(uri, "/")
               THEN uri \o <<"index", ".", "html">>
               ELSE IF ~includes(FinalSegment(uri), ".")
                       THEN uri \o <<"/", "index", ".", "html">>
                       ELSE uri
====
